---- MODULE Spec2Model ----
(***************************************************************************)
(* Copy-on-write trie of src/trie.cpp (bustub::Trie).                      *)
(*                                                                         *)
(* The heap is explicit: `nodes` holds every TrieNode ever allocated with  *)
(* std::make_shared (the index is the node's address, 0 is nullptr) and    *)
(* `objs` holds every payload object allocated with std::make_shared<T>.   *)
(* `tries` holds every Trie handle ever returned, with the call that       *)
(* produced it; tries[1] is the default-constructed (empty) trie.          *)
(*                                                                         *)
(* The test harness (TEST, ASSERT_TRUE, ASSERT_EQ, RUN_ALL_TESTS) is the   *)
(* second part: `tests` is the registry GetTests(), `pc`, `next`, `passed` *)
(* and `failed` are the state of main, `out` is what was written to        *)
(* std::cout and std::cerr, `status` is the exit status of the process.    *)
(*                                                                         *)
(* `threads` is the third part: the position of each thread inside the     *)
(* Get, Put or Remove it is running, one step per node read or allocated.  *)
(***************************************************************************)
EXTENDS Naturals, Sequences, FiniteSets

VARIABLES nodes, objs, tries, tests, pc, next, passed, failed, out, status,
          threads

trieVars == <<nodes, objs, tries>>

runnerVars == <<tests, pc, next, passed, failed, out, status>>

vars == <<trieVars, runnerVars, threads>>

(***************************************************************************)
(* Bounds of the model.                                                    *)
(***************************************************************************)
\* longest key, in bytes
MaxLen == 2
\* number of Put/Remove calls in one run
MaxOps == 3
\* values of each payload type are 1..MaxVal
MaxVal == 2
\* number of registered tests
MaxTests == 3
\* number of threads, and of calls made before the threads start
NumThreads == 2
MaxSetup == 1

\* key bytes
Alphabet == {"a", "b"}

RECURSIVE KeysOfLen(_)
KeysOfLen(n) ==
    IF n = 0 THEN {<<>>}
    ELSE {<<c>> \o k : c \in Alphabet, k \in KeysOfLen(n - 1)}

Keys == UNION {KeysOfLen(n) : n \in 0..MaxLen}

\* the types Trie::Get and Trie::Put are instantiated for
Types == {"uint32_t", "uint64_t", "string"}

\* the types the downcast ladder of CreateNodeWithNewChildren tries
LadderTypes == {"uint32_t", "uint64_t", "string", "int"}

Values == 1..MaxVal

\* a payload type outside the ladder: the non-copyable values Put has to
\* accept
OtherTypes == {"unique_ptr"}

AnyTypes == Types \cup OtherTypes

nullptr == 0

(***************************************************************************)
(* Nodes.  `type` is the dynamic type of the object: "TrieNode" or the T   *)
(* of TrieNodeWithValue<T>; value_ is the address of the payload in objs.  *)
(* The two classes are declared in trie.h; their fields are the ones       *)
(* trie.cpp reads (children_, is_value_node_, value_) and their            *)
(* constructors are the ones it calls.  A payload value is a number: the   *)
(* code stores and returns values and never computes with them.            *)
(***************************************************************************)
NoChildren == [c \in {} |-> nullptr]

TrieNode(children) ==
    [children_ |-> children, is_value_node_ |-> FALSE,
     type |-> "TrieNode", value_ |-> nullptr]

TrieNodeWithValue(T, children, value) ==
    [children_ |-> children, is_value_node_ |-> TRUE,
     type |-> T, value_ |-> value]

\* std::make_shared: the heap with one more object, and its address
MakeNode(h, n) ==
    [h |-> [h EXCEPT !.nodes = Append(h.nodes, n)], ptr |-> Len(h.nodes) + 1]

Tail1(key) == SubSeq(key, 2, Len(key))

(***************************************************************************)
(* Trie::Get<T>: the address of the payload, or nullptr.                   *)
(***************************************************************************)
RECURSIVE GetWalk(_, _, _)
GetWalk(h, current, key) ==
    IF key = <<>> THEN current
    ELSE IF Head(key) \notin DOMAIN h.nodes[current].children_ THEN nullptr
    ELSE GetWalk(h, h.nodes[current].children_[Head(key)], Tail1(key))

\* Get without the check of the node's type
Get_AnyType(h, root, key, T) ==
    IF root = nullptr THEN nullptr
    ELSE LET current == GetWalk(h, root, key) IN
         IF current = nullptr THEN nullptr
         ELSE h.nodes[current].value_

Get(h, root, key, T) ==
    IF root = nullptr THEN nullptr
    ELSE LET current == GetWalk(h, root, key) IN
         IF current = nullptr THEN nullptr
         ELSE IF ~h.nodes[current].is_value_node_ THEN nullptr
         ELSE IF h.nodes[current].type # T THEN nullptr
         ELSE h.nodes[current].value_

(***************************************************************************)
(* CreateNodeWithNewChildren: rebuild `node` with a new child map.         *)
(***************************************************************************)
\* a rebuild that drops the payload
CreateNode_DropValue(h, node, new_children) ==
    MakeNode(h, TrieNode(new_children))

\* a rebuild that copies the payload into a new object
CreateNode_CopyPayload(h, node, new_children) ==
    IF node = nullptr \/ ~h.nodes[node].is_value_node_
    THEN MakeNode(h, TrieNode(new_children))
    ELSE MakeNode([h EXCEPT !.objs = Append(h.objs, h.objs[h.nodes[node].value_])],
                  TrieNodeWithValue(h.nodes[node].type, new_children,
                                    Len(h.objs) + 1))

\* a rebuild that writes the new child map into the node it was given
CreateNode_InPlace(h, node, new_children) ==
    IF node = nullptr
    THEN MakeNode(h, TrieNode(new_children))
    ELSE [h |-> [h EXCEPT !.nodes[node].children_ = new_children],
          ptr |-> node]

CreateNodeWithNewChildren(h, node, new_children) ==
    IF node = nullptr \/ ~h.nodes[node].is_value_node_
    THEN MakeNode(h, TrieNode(new_children))
    ELSE IF h.nodes[node].type \in LadderTypes
    THEN MakeNode(h, TrieNodeWithValue(h.nodes[node].type, new_children,
                                       h.nodes[node].value_))
    ELSE MakeNode(h, TrieNode(new_children))

(***************************************************************************)
(* PutHelper<T>.                                                           *)
(***************************************************************************)
\* a base case that leaves an existing value node's payload in place
PutTerminal_KeepOld(h, node, T, value) ==
    LET h1 == [h EXCEPT !.objs = Append(h.objs, [type |-> T, val |-> value])]
        value_ptr == Len(h.objs) + 1
    IN  IF node = nullptr
        THEN MakeNode(h1, TrieNodeWithValue(T, NoChildren, value_ptr))
        ELSE IF h.nodes[node].is_value_node_
        THEN MakeNode(h1, h.nodes[node])
        ELSE MakeNode(h1, TrieNodeWithValue(T, h.nodes[node].children_, value_ptr))

\* a base case that forgets the children of the node it replaces
PutTerminal_DropChildren(h, node, T, value) ==
    LET h1 == [h EXCEPT !.objs = Append(h.objs, [type |-> T, val |-> value])]
        value_ptr == Len(h.objs) + 1
    IN  MakeNode(h1, TrieNodeWithValue(T, NoChildren, value_ptr))

\* a base case that writes the new payload into the existing node
PutTerminal_InPlace(h, node, T, value) ==
    LET h1 == [h EXCEPT !.objs = Append(h.objs, [type |-> T, val |-> value])]
        value_ptr == Len(h.objs) + 1
    IN  IF node = nullptr
        THEN MakeNode(h1, TrieNodeWithValue(T, NoChildren, value_ptr))
        ELSE [h |-> [h1 EXCEPT !.nodes[node] =
                        TrieNodeWithValue(T, h.nodes[node].children_, value_ptr)],
              ptr |-> node]

\* copies of the nodes a child map refers to, in place of the nodes
RECURSIVE CloneChildren(_, _, _)
CloneChildren(h, children, todo) ==
    IF todo = {} THEN [h |-> h, children |-> children]
    ELSE LET c == CHOOSE x \in todo : TRUE
             m == MakeNode(h, h.nodes[children[c]])
         IN  CloneChildren(m.h, [children EXCEPT ![c] = m.ptr], todo \ {c})

\* a base case that copies the children of the node it replaces
PutTerminal_CloneChildren(h, node, T, value) ==
    LET h1 == [h EXCEPT !.objs = Append(h.objs, [type |-> T, val |-> value])]
        value_ptr == Len(h.objs) + 1
    IN  IF node = nullptr
        THEN MakeNode(h1, TrieNodeWithValue(T, NoChildren, value_ptr))
        ELSE LET cl == CloneChildren(h1, h.nodes[node].children_,
                                     DOMAIN h.nodes[node].children_)
             IN  MakeNode(cl.h, TrieNodeWithValue(T, cl.children, value_ptr))

\* a base case that strips a node that already holds a value of type T
PutTerminal_ClearsExisting(h, node, T, value) ==
    LET h1 == [h EXCEPT !.objs = Append(h.objs, [type |-> T, val |-> value])]
        value_ptr == Len(h.objs) + 1
    IN  IF node = nullptr
        THEN MakeNode(h1, TrieNodeWithValue(T, NoChildren, value_ptr))
        ELSE IF h.nodes[node].is_value_node_ /\ h.nodes[node].type = T
        THEN MakeNode(h1, TrieNode(h.nodes[node].children_))
        ELSE MakeNode(h1, TrieNodeWithValue(T, h.nodes[node].children_, value_ptr))

\* the base case: key is empty
PutTerminal(h, node, T, value) ==
    LET h1 == [h EXCEPT !.objs = Append(h.objs, [type |-> T, val |-> value])]
        value_ptr == Len(h.objs) + 1
    IN  IF node = nullptr
        THEN MakeNode(h1, TrieNodeWithValue(T, NoChildren, value_ptr))
        ELSE MakeNode(h1, TrieNodeWithValue(T, h.nodes[node].children_, value_ptr))

RECURSIVE PutHelper(_, _, _, _, _)
PutHelper(h, node, key, T, value) ==
    IF key = <<>> THEN PutTerminal(h, node, T, value)
    ELSE
    LET first_char == Head(key)
        remaining == Tail1(key)
        old_children == IF node # nullptr THEN h.nodes[node].children_
                        ELSE NoChildren
        child == IF first_char \in DOMAIN old_children
                 THEN PutHelper(h, old_children[first_char], remaining, T, value)
                 ELSE PutHelper(h, nullptr, remaining, T, value)
        new_children == [c \in DOMAIN old_children \cup {first_char} |->
                           IF c = first_char THEN child.ptr ELSE old_children[c]]
    IN  CreateNodeWithNewChildren(child.h, node, new_children)

(***************************************************************************)
(* RemoveHelper.                                                           *)
(***************************************************************************)
\* a base case that hands back the node it was given
RemoveTerminal_Keep(h, node) == [h |-> h, ptr |-> node]

\* a base case that drops the node together with its children
RemoveTerminal_Null(h, node) == [h |-> h, ptr |-> nullptr]

\* a base case that keeps a childless node as an internal node
RemoveTerminal_AlwaysNode(h, node) ==
    MakeNode(h, TrieNode(h.nodes[node].children_))

\* a base case that copies the children of the node it replaces
RemoveTerminal_CloneChildren(h, node) ==
    IF DOMAIN h.nodes[node].children_ # {}
    THEN LET cl == CloneChildren(h, h.nodes[node].children_,
                                 DOMAIN h.nodes[node].children_)
         IN  MakeNode(cl.h, TrieNode(cl.children))
    ELSE [h |-> h, ptr |-> nullptr]

\* the base case: key is empty
RemoveTerminal(h, node) ==
    IF DOMAIN h.nodes[node].children_ # {}
    THEN MakeNode(h, TrieNode(h.nodes[node].children_))
    ELSE [h |-> h, ptr |-> nullptr]

\* the child map without first_char, then with new_child when it is not null
RemoveChildren(children, first_char, new_child) ==
    [c \in (DOMAIN children \ {first_char})
           \cup (IF new_child # nullptr THEN {first_char} ELSE {}) |->
       IF c = first_char THEN new_child ELSE children[c]]

\* a rebuild that never drops the node
RemoveRebuild_NoPrune(h, node, new_children) ==
    CreateNodeWithNewChildren(h, node, new_children)

\* the check that decides whether the rebuilt node is kept
RemoveRebuild(h, node, new_children) ==
    IF ~h.nodes[node].is_value_node_ /\ DOMAIN new_children = {}
    THEN [h |-> h, ptr |-> nullptr]
    ELSE CreateNodeWithNewChildren(h, node, new_children)

\* a missing child reported as an emptied subtree
RemoveMissing_Null(h, node) == [h |-> h, ptr |-> nullptr]

\* a missing child answered with a copy of the node
RemoveMissing_Copy(h, node) == MakeNode(h, h.nodes[node])

\* the key's first byte has no child
RemoveMissing(h, node) == [h |-> h, ptr |-> node]

RECURSIVE RemoveHelper(_, _, _)
RemoveHelper(h, node, key) ==
    IF node = nullptr THEN [h |-> h, ptr |-> nullptr]
    ELSE IF key = <<>> THEN RemoveTerminal(h, node)
    ELSE
    LET first_char == Head(key)
        remaining == Tail1(key)
    IN  IF first_char \notin DOMAIN h.nodes[node].children_
        THEN RemoveMissing(h, node)
        ELSE
        LET new_child == RemoveHelper(h, h.nodes[node].children_[first_char],
                                      remaining)
            new_children == RemoveChildren(h.nodes[node].children_, first_char,
                                           new_child.ptr)
        IN  RemoveRebuild(new_child.h, node, new_children)

(***************************************************************************)
(* The program: handles are produced from the empty trie by Put and Remove *)
(* calls on the handles produced so far.                                  *)
(***************************************************************************)
Heap == [nodes |-> nodes, objs |-> objs]

\* a handle, the call that returned it, and the sizes of the heap when the
\* call was made
Handle(root, from, kind, key, T, value) ==
    [root_ |-> root, from |-> from, kind |-> kind, key |-> key,
     type |-> T, val |-> value, nodes0 |-> Len(nodes), objs0 |-> Len(objs)]

\* what a trie is, whatever the addresses of its nodes: for each node its
\* type, the value of its payload and the tries of its children
NullTree == [type |-> "nullptr", val |-> 0, kids |-> NoChildren]

RECURSIVE Tree(_, _)
Tree(h, ptr) ==
    IF ptr = nullptr THEN NullTree
    ELSE [type |-> h.nodes[ptr].type,
          val |-> IF h.nodes[ptr].value_ = nullptr THEN 0
                  ELSE h.objs[h.nodes[ptr].value_].val,
          kids |-> [c \in DOMAIN h.nodes[ptr].children_ |->
                       Tree(h, h.nodes[ptr].children_[c])]]

\* a thread that is in no call
Idle ==
    [pc |-> "idle", op |-> "none", src |-> 0, key |-> <<>>, type |-> "none",
     val |-> 0, rest |-> <<>>, cur |-> nullptr, stack |-> <<>>,
     ret |-> nullptr, nodes0 |-> 0, objs0 |-> 0,
     alonePtr |-> nullptr, aloneTree |-> NullTree]

Init ==
    /\ nodes = <<>>
    /\ objs = <<>>
    /\ tries = <<Handle(nullptr, 0, "Trie", <<>>, "none", 0)>>
    /\ tests = <<>>
    /\ pc = "startup"
    /\ next = 1
    /\ passed = 0
    /\ failed = 0
    /\ out = <<>>
    /\ status = 0
    /\ threads = [t \in 1..NumThreads |-> Idle]

\* Trie::Put<T>(key, value) on handle s
Put(s, key, T, value) ==
    /\ Len(tries) <= MaxOps
    /\ LET r == PutHelper(Heap, tries[s].root_, key, T, value) IN
       /\ nodes' = r.h.nodes
       /\ objs' = r.h.objs
       /\ tries' = Append(tries, Handle(r.ptr, s, "Put", key, T, value))
    /\ UNCHANGED <<runnerVars, threads>>

\* Trie::Remove(key) on handle s
Remove(s, key) ==
    /\ Len(tries) <= MaxOps
    /\ LET r == RemoveHelper(Heap, tries[s].root_, key) IN
       /\ nodes' = r.h.nodes
       /\ objs' = r.h.objs
       /\ tries' = Append(tries, Handle(r.ptr, s, "Remove", key, "none", 0))
    /\ UNCHANGED <<runnerVars, threads>>

\* a client that threads one handle: every call is made on the latest trie
Next ==
    \/ \E key \in Keys, T \in Types, value \in Values :
          Put(Len(tries), key, T, value)
    \/ \E key \in Keys : Remove(Len(tries), key)

Spec == Init /\ [][Next]_vars

\* a client that keeps every version: a call is made on any trie returned so far
NextVersions ==
    \/ \E s \in DOMAIN tries, key \in Keys, T \in Types, value \in Values :
          Put(s, key, T, value)
    \/ \E s \in DOMAIN tries, key \in Keys : Remove(s, key)

SpecVersions == Init /\ [][NextVersions]_vars

\* a client that also stores values of a type outside the ladder
NextAnyType ==
    \/ \E key \in Keys, T \in AnyTypes, value \in Values :
          Put(Len(tries), key, T, value)
    \/ \E key \in Keys : Remove(Len(tries), key)

SpecAnyType == Init /\ [][NextAnyType]_vars

(***************************************************************************)
(* The test harness.  A test is what its body does: it returns with every  *)
(* assertion true, it fails an ASSERT_TRUE or an ASSERT_EQ, or it throws.  *)
(***************************************************************************)
Bodies == {"pass", "assert_true", "assert_eq", "throw_std", "throw_other"}

\* the exit status of a process is the low 8 bits of what main returns
ExitStatusRange == 256

Line(stream, tag, test) == [stream |-> stream, tag |-> tag, test |-> test]

\* t.func(): how the call ends, and what the body writes to std::cerr.  A
\* failed ASSERT_TRUE or ASSERT_EQ writes its message and returns.
TestBody(i) ==
    IF tests[i] = "assert_true"
    THEN [ends |-> "returned",
          cerr |-> <<Line("cerr", "ASSERT_TRUE failed", i)>>]
    ELSE IF tests[i] = "assert_eq"
    THEN [ends |-> "returned",
          cerr |-> <<Line("cerr", "ASSERT_EQ failed", i)>>]
    ELSE IF tests[i] = "throw_std"
    THEN [ends |-> "std::exception", cerr |-> <<>>]
    ELSE IF tests[i] = "throw_other"
    THEN [ends |-> "exception", cerr |-> <<>>]
    ELSE [ends |-> "returned", cerr |-> <<>>]

\* a runner that takes a thrown exception for a pass
Verdict_Swallow(ends) == "OK"

\* the try block and its two handlers
Verdict(ends) == IF ends = "returned" THEN "OK" ELSE "FAILED"

\* TEST(suite, name): the registrar's constructor, run before main
Register(body) ==
    /\ pc = "startup"
    /\ Len(tests) < MaxTests
    /\ tests' = Append(tests, body)
    /\ UNCHANGED <<trieVars, pc, next, passed, failed, out, status, threads>>

\* main is entered
StartMain ==
    /\ pc = "startup"
    /\ pc' = "loop"
    /\ next' = 1
    /\ passed' = 0
    /\ failed' = 0
    /\ UNCHANGED <<trieVars, tests, out, status, threads>>

\* one iteration of the loop over the registered tests
RunTest ==
    /\ pc = "loop"
    /\ next <= Len(tests)
    /\ LET body == TestBody(next)
           verdict == Verdict(body.ends)
       IN  /\ out' = out \o <<Line("cout", "RUN", next)>> \o body.cerr
                         \o <<IF verdict = "OK" THEN Line("cout", "OK", next)
                              ELSE Line("cerr", "FAILED", next)>>
           /\ passed' = IF verdict = "OK" THEN passed + 1 ELSE passed
           /\ failed' = IF verdict = "OK" THEN failed ELSE failed + 1
    /\ next' = next + 1
    /\ UNCHANGED <<trieVars, tests, pc, status, threads>>

\* the summary and the return from main
Finish ==
    /\ pc = "loop"
    /\ next > Len(tests)
    /\ out' = out \o <<Line("cout", "PASSED tests", passed)>>
                  \o (IF failed > 0
                      THEN <<Line("cout", "FAILED tests", failed)>>
                      ELSE <<>>)
    /\ status' = failed % ExitStatusRange
    /\ pc' = "done"
    /\ UNCHANGED <<trieVars, tests, next, passed, failed, threads>>

NextRunner ==
    \/ \E body \in Bodies : Register(body)
    \/ StartMain
    \/ RunTest
    \/ Finish

SpecRunner == Init /\ [][NextRunner]_vars

(***************************************************************************)
(* Threads.  Each thread makes one call on the latest trie; the call is    *)
(* the code of Get, PutHelper or RemoveHelper taken one node at a time:    *)
(* a step down reads one node, a step up allocates one node.  `stack`      *)
(* holds the frames of the recursion, alonePtr and aloneTree hold what the *)
(* call returns when nothing runs between its steps.                       *)
(***************************************************************************)
Threads == 1..NumThreads

\* the types of the threads' calls: a type and another type
ThreadTypes == {"uint32_t", "string"}

Begin(t, op, key, T, value) ==
    [Idle EXCEPT !.op = op, !.src = Len(tries), !.key = key, !.type = T,
                 !.val = value, !.rest = key,
                 !.cur = tries[Len(tries)].root_,
                 !.nodes0 = Len(nodes), !.objs0 = Len(objs)]

\* calls made before the threads start
Setup ==
    /\ Len(tries) <= MaxSetup
    /\ \A t \in Threads : threads[t].pc = "idle"
    /\ \E key \in Keys, T \in ThreadTypes : Put(Len(tries), key, T, MaxVal)

\* thread t calls Get<T>(key)
StartGet(t, key, T) ==
    /\ threads[t].pc = "idle"
    /\ threads' = [threads EXCEPT ![t] =
           [Begin(t, "Get", key, T, 0) EXCEPT
               !.pc = IF tries[Len(tries)].root_ = nullptr THEN "done"
                      ELSE "walk",
               !.alonePtr = Get(Heap, tries[Len(tries)].root_, key, T)]]
    /\ UNCHANGED <<trieVars, runnerVars>>

\* one turn of the loop of Get, or the checks after it
GetStep(t) ==
    LET th == threads[t] IN
    /\ th.pc = "walk"
    /\ threads' = [threads EXCEPT ![t] =
           IF th.rest # <<>>
           THEN IF Head(th.rest) \notin DOMAIN nodes[th.cur].children_
                THEN [th EXCEPT !.pc = "done", !.ret = nullptr]
                ELSE [th EXCEPT !.cur = nodes[th.cur].children_[Head(th.rest)],
                                !.rest = Tail1(th.rest)]
           ELSE [th EXCEPT !.pc = "done",
                           !.ret = IF ~nodes[th.cur].is_value_node_ THEN nullptr
                                   ELSE IF nodes[th.cur].type # th.type
                                   THEN nullptr
                                   ELSE nodes[th.cur].value_]]
    /\ UNCHANGED <<trieVars, runnerVars>>

\* thread t calls Put<T>(key, value)
StartPut(t, key, T, value) ==
    /\ threads[t].pc = "idle"
    /\ threads' = [threads EXCEPT ![t] =
           [Begin(t, "Put", key, T, value) EXCEPT
               !.pc = "down",
               !.aloneTree =
                   LET r == PutHelper(Heap, tries[Len(tries)].root_, key, T, value)
                   IN  Tree(r.h, r.ptr)]]
    /\ UNCHANGED <<trieVars, runnerVars>>

\* PutHelper on the way down: the base case, or one node read
PutDown(t) ==
    LET th == threads[t] IN
    /\ th.pc = "down" /\ th.op = "Put"
    /\ IF th.rest = <<>>
       THEN LET r == PutTerminal(Heap, th.cur, th.type, th.val) IN
            /\ nodes' = r.h.nodes
            /\ objs' = r.h.objs
            /\ threads' = [threads EXCEPT ![t] =
                   [th EXCEPT !.pc = "up", !.ret = r.ptr]]
       ELSE LET first_char == Head(th.rest)
                new_children == IF th.cur # nullptr
                                THEN nodes[th.cur].children_ ELSE NoChildren
            IN  /\ threads' = [threads EXCEPT ![t] =
                       [th EXCEPT
                           !.stack = Append(th.stack,
                               [node |-> th.cur, ch |-> first_char,
                                children |-> new_children]),
                           !.cur = IF first_char \in DOMAIN new_children
                                   THEN new_children[first_char] ELSE nullptr,
                           !.rest = Tail1(th.rest)]]
                /\ UNCHANGED <<nodes, objs>>
    /\ UNCHANGED <<tries, runnerVars>>

\* PutHelper on the way up: one node rebuilt
PutUp(t) ==
    LET th == threads[t] IN
    /\ th.pc = "up" /\ th.op = "Put" /\ th.stack # <<>>
    /\ LET f == th.stack[Len(th.stack)]
           new_children == [c \in DOMAIN f.children \cup {f.ch} |->
                              IF c = f.ch THEN th.ret ELSE f.children[c]]
           r == CreateNodeWithNewChildren(Heap, f.node, new_children)
       IN  /\ nodes' = r.h.nodes
           /\ objs' = r.h.objs
           /\ threads' = [threads EXCEPT ![t] =
                  [th EXCEPT !.ret = r.ptr,
                             !.stack = SubSeq(th.stack, 1, Len(th.stack) - 1)]]
    /\ UNCHANGED <<tries, runnerVars>>

\* thread t calls Remove(key)
StartRemove(t, key) ==
    /\ threads[t].pc = "idle"
    /\ threads' = [threads EXCEPT ![t] =
           [Begin(t, "Remove", key, "none", 0) EXCEPT
               !.pc = "down",
               !.aloneTree =
                   LET r == RemoveHelper(Heap, tries[Len(tries)].root_, key)
                   IN  Tree(r.h, r.ptr)]]
    /\ UNCHANGED <<trieVars, runnerVars>>

\* RemoveHelper on the way down: a base case, or one node read
RemoveDown(t) ==
    LET th == threads[t] IN
    /\ th.pc = "down" /\ th.op = "Remove"
    /\ IF th.cur = nullptr
       THEN /\ threads' = [threads EXCEPT ![t] =
                   [th EXCEPT !.pc = "up", !.ret = nullptr]]
            /\ UNCHANGED <<nodes, objs>>
       ELSE IF th.rest = <<>>
       THEN LET r == RemoveTerminal(Heap, th.cur) IN
            /\ nodes' = r.h.nodes
            /\ objs' = r.h.objs
            /\ threads' = [threads EXCEPT ![t] =
                   [th EXCEPT !.pc = "up", !.ret = r.ptr]]
       ELSE IF Head(th.rest) \notin DOMAIN nodes[th.cur].children_
       THEN LET r == RemoveMissing(Heap, th.cur) IN
            /\ nodes' = r.h.nodes
            /\ objs' = r.h.objs
            /\ threads' = [threads EXCEPT ![t] =
                   [th EXCEPT !.pc = "up", !.ret = r.ptr]]
       ELSE /\ threads' = [threads EXCEPT ![t] =
                   [th EXCEPT
                       !.stack = Append(th.stack,
                           [node |-> th.cur, ch |-> Head(th.rest),
                            children |-> NoChildren]),
                       !.cur = nodes[th.cur].children_[Head(th.rest)],
                       !.rest = Tail1(th.rest)]]
            /\ UNCHANGED <<nodes, objs>>
    /\ UNCHANGED <<tries, runnerVars>>

\* RemoveHelper on the way up: one node rebuilt or dropped
RemoveUp(t) ==
    LET th == threads[t] IN
    /\ th.pc = "up" /\ th.op = "Remove" /\ th.stack # <<>>
    /\ LET f == th.stack[Len(th.stack)]
           new_children == RemoveChildren(nodes[f.node].children_, f.ch, th.ret)
           r == RemoveRebuild(Heap, f.node, new_children)
       IN  /\ nodes' = r.h.nodes
           /\ objs' = r.h.objs
           /\ threads' = [threads EXCEPT ![t] =
                  [th EXCEPT !.ret = r.ptr,
                             !.stack = SubSeq(th.stack, 1, Len(th.stack) - 1)]]
    /\ UNCHANGED <<tries, runnerVars>>

\* Trie(new_root): the call of thread t returns its handle
Return(t) ==
    LET th == threads[t] IN
    /\ th.pc = "up" /\ th.stack = <<>>
    /\ tries' = Append(tries,
           [Handle(th.ret, th.src, th.op, th.key, th.type, th.val)
               EXCEPT !.nodes0 = th.nodes0, !.objs0 = th.objs0])
    /\ threads' = [threads EXCEPT ![t] = [th EXCEPT !.pc = "done"]]
    /\ UNCHANGED <<nodes, objs, runnerVars>>

NextThreads ==
    \/ Setup
    \/ \E t \in Threads, key \in Keys, T \in ThreadTypes :
          StartGet(t, key, T)
    \/ \E t \in Threads : GetStep(t)
    \/ \E t \in Threads, key \in Keys, T \in ThreadTypes :
          StartPut(t, key, T, t)
    \/ \E t \in Threads : PutDown(t)
    \/ \E t \in Threads : PutUp(t)
    \/ \E t \in Threads, key \in Keys : StartRemove(t, key)
    \/ \E t \in Threads : RemoveDown(t)
    \/ \E t \in Threads : RemoveUp(t)
    \/ \E t \in Threads : Return(t)

SpecThreads == Init /\ [][NextThreads]_vars

(***************************************************************************)
(* What a caller observes.                                                 *)
(***************************************************************************)
Absent == [present |-> FALSE, val |-> 0]

Present(v) == [present |-> TRUE, val |-> v]

\* the value behind the pointer Get<T> returns, or absence
Lookup(root, key, T) ==
    LET p == Get(Heap, root, key, T) IN
    IF p = nullptr THEN Absent ELSE Present(objs[p].val)

\* the handles produced by a call, and the handle each was called on
Calls == 2..Len(tries)

Src(i) == tries[tries[i].from]

\* the node the bytes of key lead to from root, found from the last byte back
NodeAt(root, key) ==
    LET at[n \in 0..Len(key)] ==
            IF n = 0 THEN root
            ELSE IF at[n - 1] = nullptr THEN nullptr
            ELSE IF key[n] \in DOMAIN nodes[at[n - 1]].children_
                 THEN nodes[at[n - 1]].children_[key[n]]
                 ELSE nullptr
    IN  at[Len(key)]

HasValue(root, key) ==
    NodeAt(root, key) # nullptr /\ nodes[NodeAt(root, key)].is_value_node_

IsPrefix(k1, k2) == Len(k1) < Len(k2) /\ SubSeq(k2, 1, Len(k1)) = k1

(***************************************************************************)
(* Put.                                                                    *)
(***************************************************************************)
\* C1 (round trip): in the trie a Put(K, V) of type T returns, Get<T>(K)
\* yields V, whatever trie the call was made on and also for the empty key.
C1_RoundTrip ==
    \A i \in Calls :
        tries[i].kind = "Put" =>
            Lookup(tries[i].root_, tries[i].key, tries[i].type)
                = Present(tries[i].val)

\* a Put of the empty key on a trie that held a value of another type there
\* and a key below it, read back under the new type
C1_Witness ==
    \E i \in Calls :
        /\ tries[i].kind = "Put" /\ tries[i].key = <<>>
        /\ Src(i).root_ # nullptr
        /\ DOMAIN nodes[Src(i).root_].children_ # {}
        /\ nodes[Src(i).root_].is_value_node_
        /\ nodes[Src(i).root_].type # tries[i].type
        /\ Lookup(tries[i].root_, <<>>, tries[i].type) = Present(tries[i].val)

\* C2 (Put non-interference): in the trie a Put(K, V) returns, every other
\* key K' answers Get<U>(K') as in the receiver, for every type U: the same
\* value or the same absence.
C2_PutNonInterference ==
    \A i \in Calls :
        tries[i].kind = "Put" =>
            \A k \in Keys \ {tries[i].key}, U \in Types :
                Lookup(tries[i].root_, k, U) = Lookup(Src(i).root_, k, U)

\* a Put of K on a trie holding a value at a proper prefix of K and a value
\* below K: both are read back unchanged
C2_Witness ==
    \E i \in Calls, k1 \in Keys, k2 \in Keys, U \in Types :
        /\ tries[i].kind = "Put"
        /\ IsPrefix(k1, tries[i].key) /\ IsPrefix(tries[i].key, k2)
        /\ Lookup(Src(i).root_, k1, U).present
        /\ Lookup(tries[i].root_, k1, U) = Lookup(Src(i).root_, k1, U)
        /\ HasValue(Src(i).root_, k2) /\ HasValue(tries[i].root_, k2)

(***************************************************************************)
(* Get.                                                                    *)
(***************************************************************************)
\* C3 (Get): Get<T>(K) returns a value if and only if the child-map entries
\* for the successive bytes of K lead from the root to a node, that node is
\* a value node and its type is T, and then it returns that node's payload;
\* in every other case it returns nullptr.
C3_GetIff ==
    \A i \in DOMAIN tries, k \in Keys, T \in Types :
        LET n == NodeAt(tries[i].root_, k)
            p == Get(Heap, tries[i].root_, k, T)
        IN  /\ (p # nullptr) <=>
                   (n # nullptr /\ nodes[n].is_value_node_ /\ nodes[n].type = T)
            /\ p # nullptr => p = nodes[n].value_ /\ objs[p].type = T

\* one trie in which a Get finds a value, a Get of the same key under another
\* type finds none, a Get ends at an internal node and a Get falls off
C3_Witness ==
    \E i \in DOMAIN tries, k1 \in Keys, k2 \in Keys, k3 \in Keys,
       T \in Types, U \in Types :
        /\ Get(Heap, tries[i].root_, k1, T) # nullptr
        /\ U # T /\ Get(Heap, tries[i].root_, k1, U) = nullptr
        /\ NodeAt(tries[i].root_, k2) # nullptr
        /\ ~nodes[NodeAt(tries[i].root_, k2)].is_value_node_
        /\ Get(Heap, tries[i].root_, k2, T) = nullptr
        /\ NodeAt(tries[i].root_, k3) = nullptr
        /\ Get(Heap, tries[i].root_, k3, T) = nullptr

\* the child map of the node of key under root; empty when there is no node
ChildrenAt(root, key) ==
    IF NodeAt(root, key) = nullptr THEN NoChildren
    ELSE nodes[NodeAt(root, key)].children_

\* C4 (overwrite): after S.Put(K, V1) of type T1 and then Put(K, V2) of type
\* T2 on its result, Get<T>(K) yields V2 for T = T2 and absence for every
\* other T, and the node of K has the child map it had in S and after the
\* first Put.
C4_Overwrite ==
    \A i \in Calls :
        (/\ tries[i].kind = "Put"
         /\ Src(i).kind = "Put"
         /\ Src(i).key = tries[i].key) =>
            /\ \A T \in Types :
                   Lookup(tries[i].root_, tries[i].key, T) =
                       IF T = tries[i].type THEN Present(tries[i].val)
                       ELSE Absent
            /\ NodeAt(tries[i].root_, tries[i].key) # nullptr
            /\ ChildrenAt(tries[i].root_, tries[i].key)
                   = ChildrenAt(Src(i).root_, tries[i].key)
            /\ ChildrenAt(tries[i].root_, tries[i].key)
                   = ChildrenAt(tries[Src(i).from].root_, tries[i].key)

\* a value overwritten by a value of another type at a node that has children
C4_Witness ==
    \E i \in Calls :
        /\ tries[i].kind = "Put" /\ Src(i).kind = "Put"
        /\ Src(i).key = tries[i].key
        /\ Src(i).type # tries[i].type
        /\ DOMAIN ChildrenAt(tries[i].root_, tries[i].key) # {}
        /\ Lookup(Src(i).root_, tries[i].key, Src(i).type) = Present(Src(i).val)
        /\ Lookup(tries[i].root_, tries[i].key, Src(i).type) = Absent
        /\ Lookup(tries[i].root_, tries[i].key, tries[i].type)
               = Present(tries[i].val)

\* a value overwritten by another value of its own type
C4_WitnessSameType ==
    \E j \in Calls :
        /\ tries[j].kind = "Put" /\ Src(j).kind = "Put"
        /\ Src(j).key = tries[j].key
        /\ Src(j).type = tries[j].type /\ Src(j).val # tries[j].val
        /\ Lookup(tries[j].root_, tries[j].key, tries[j].type)
               = Present(tries[j].val)

(***************************************************************************)
(* Remove.                                                                 *)
(***************************************************************************)
\* C5 (Remove erases the key): in the trie a Remove(K) returns, Get<T>(K)
\* reports absence for every type T, whatever was stored at K.
C5_RemoveErases ==
    \A i \in Calls :
        tries[i].kind = "Remove" =>
            \A T \in Types : Lookup(tries[i].root_, tries[i].key, T) = Absent

\* a Remove of a key right after the Put of that key, at a node with children
C5_Witness ==
    \E i \in Calls :
        /\ tries[i].kind = "Remove"
        /\ Src(i).kind = "Put" /\ Src(i).key = tries[i].key
        /\ Lookup(Src(i).root_, tries[i].key, Src(i).type) = Present(Src(i).val)
        /\ DOMAIN nodes[NodeAt(Src(i).root_, tries[i].key)].children_ # {}
        /\ Lookup(tries[i].root_, tries[i].key, Src(i).type) = Absent

\* C6 (Remove preserves the other keys): in the trie a Remove(K) returns,
\* every key K' other than K answers Get<U>(K') as in the receiver, for
\* every type U.
C6_RemovePreserves ==
    \A i \in Calls :
        tries[i].kind = "Remove" =>
            \A k \in Keys \ {tries[i].key}, U \in Types :
                Lookup(tries[i].root_, k, U) = Lookup(Src(i).root_, k, U)

\* a Remove of a key that held a value, with a value below it: the node of
\* the key becomes an internal node and the value below is read back
C6_Witness ==
    \E i \in Calls, k2 \in Keys, W \in Types :
        /\ tries[i].kind = "Remove"
        /\ HasValue(Src(i).root_, tries[i].key)
        /\ IsPrefix(tries[i].key, k2)
        /\ Lookup(Src(i).root_, k2, W).present
        /\ Lookup(tries[i].root_, k2, W) = Lookup(Src(i).root_, k2, W)
        /\ ~nodes[NodeAt(tries[i].root_, tries[i].key)].is_value_node_
        /\ ChildrenAt(tries[i].root_, tries[i].key)
               = ChildrenAt(Src(i).root_, tries[i].key)

\* a Remove of a key that held a value, with a value at a proper prefix of it
C6_WitnessPrefix ==
    \E i \in Calls, k1 \in Keys, U \in Types :
        /\ tries[i].kind = "Remove"
        /\ HasValue(Src(i).root_, tries[i].key)
        /\ IsPrefix(k1, tries[i].key)
        /\ Lookup(Src(i).root_, k1, U).present
        /\ Lookup(tries[i].root_, k1, U) = Lookup(Src(i).root_, k1, U)

\* a Remove of one of two keys under the same parent: the sibling is read back
C6_WitnessSibling ==
    \E i \in Calls, k \in Keys, U \in Types :
        /\ tries[i].kind = "Remove"
        /\ HasValue(Src(i).root_, tries[i].key)
        /\ Len(k) = Len(tries[i].key) /\ Len(k) = MaxLen /\ k # tries[i].key
        /\ SubSeq(k, 1, Len(k) - 1) = SubSeq(tries[i].key, 1, Len(k) - 1)
        /\ Lookup(Src(i).root_, k, U).present
        /\ Lookup(tries[i].root_, k, U) = Lookup(Src(i).root_, k, U)

\* C7 (Remove of an absent key): when K has no value in the receiver, the
\* trie Remove(K) returns answers every Get<T>(K') as the receiver does.
C7_RemoveAbsent ==
    \A i \in Calls :
        (tries[i].kind = "Remove" /\ ~HasValue(Src(i).root_, tries[i].key)) =>
            \A k \in Keys, T \in Types :
                Lookup(tries[i].root_, k, T) = Lookup(Src(i).root_, k, T)

\* a Remove whose walk ends at an internal node, on a trie holding values
C7_Witness ==
    \E i \in Calls, k \in Keys, T \in Types :
        /\ tries[i].kind = "Remove"
        /\ NodeAt(Src(i).root_, tries[i].key) # nullptr
        /\ ~nodes[NodeAt(Src(i).root_, tries[i].key)].is_value_node_
        /\ Lookup(Src(i).root_, k, T).present
        /\ Lookup(tries[i].root_, k, T) = Lookup(Src(i).root_, k, T)

\* a Remove whose walk falls off the trie below a node it has passed
C7_WitnessFallsOff ==
    \E i \in Calls, k \in Keys, T \in Types :
        /\ tries[i].kind = "Remove"
        /\ Len(tries[i].key) = MaxLen
        /\ NodeAt(Src(i).root_, tries[i].key) = nullptr
        /\ NodeAt(Src(i).root_, SubSeq(tries[i].key, 1, 1)) # nullptr
        /\ Lookup(Src(i).root_, k, T).present
        /\ Lookup(tries[i].root_, k, T) = Lookup(Src(i).root_, k, T)

(***************************************************************************)
(* Versions.                                                               *)
(***************************************************************************)
\* C8 (non-mutation): a Put or Remove, on any handle returned so far, leaves
\* every handle returned so far, every node and every payload allocated so
\* far (child map, payload, value/internal kind) as they were, and every
\* Get<T>(K) on a handle returned so far returns the pointer it returned
\* before, to the payload it pointed to before.
C8_NonMutation ==
    [][/\ SubSeq(tries', 1, Len(tries)) = tries
       /\ SubSeq(nodes', 1, Len(nodes)) = nodes
       /\ SubSeq(objs', 1, Len(objs)) = objs
       /\ \A i \in DOMAIN tries, k \in Keys, T \in Types :
              Get(Heap, tries[i].root_, k, T)' = Get(Heap, tries[i].root_, k, T)
      ]_vars

\* a trie S holding a value at K, then S.Put(K, another value) and
\* S.Remove(K) both called on S: S still yields its value at K
C8_Witness ==
    \E i \in Calls, j \in Calls, l \in Calls :
        /\ tries[i].kind = "Put"
        /\ tries[j].from = i /\ tries[j].kind = "Put"
        /\ tries[j].key = tries[i].key /\ tries[j].val # tries[i].val
        /\ tries[l].from = i /\ tries[l].kind = "Remove"
        /\ tries[l].key = tries[i].key
        /\ DOMAIN ChildrenAt(tries[i].root_, tries[i].key) = {}
        /\ Lookup(tries[i].root_, tries[i].key, tries[i].type)
               = Present(tries[i].val)
        /\ Lookup(tries[j].root_, tries[i].key, tries[j].type)
               = Present(tries[j].val)
        /\ tries[l].root_ = nullptr

(***************************************************************************)
(* Cleanup.                                                                *)
(***************************************************************************)
\* the nodes reachable from root
RECURSIVE Reachable(_)
Reachable(root) ==
    IF root = nullptr THEN {}
    ELSE {root} \cup UNION {Reachable(nodes[root].children_[c]) :
                               c \in DOMAIN nodes[root].children_}

\* C9 (no orphan internals): in every trie produced from the empty trie by
\* Put and Remove, every reachable node without a payload has a non-empty
\* child map, and every child-map entry of every reachable node refers to a
\* node (never nullptr).
C9_NoOrphanInternals ==
    \A i \in DOMAIN tries :
        /\ tries[i].root_ \in {nullptr} \cup DOMAIN nodes
        /\ \A n \in Reachable(tries[i].root_) :
               /\ (~nodes[n].is_value_node_ \/ nodes[n].value_ = nullptr)
                      => DOMAIN nodes[n].children_ # {}
               /\ \A c \in DOMAIN nodes[n].children_ :
                      nodes[n].children_[c] \in DOMAIN nodes

\* a Remove that drops the emptied node of its key and keeps the parent,
\* which still has the sibling
C9_Witness ==
    \E i \in Calls, k \in Keys :
        /\ tries[i].kind = "Remove" /\ Len(tries[i].key) = MaxLen
        /\ HasValue(Src(i).root_, tries[i].key)
        /\ NodeAt(tries[i].root_, tries[i].key) = nullptr
        /\ Len(k) = MaxLen /\ k # tries[i].key
        /\ SubSeq(k, 1, MaxLen - 1) = SubSeq(tries[i].key, 1, MaxLen - 1)
        /\ HasValue(tries[i].root_, k)
        /\ ~nodes[NodeAt(tries[i].root_, SubSeq(k, 1, MaxLen - 1))].is_value_node_

\* C10 (cleanup reaches the root): a trie produced from the empty trie by
\* Put and Remove has a null root if and only if no key maps to a value in
\* it.
C10_NullRootIffEmpty ==
    \A i \in DOMAIN tries :
        (tries[i].root_ = nullptr) <=>
            (\A k \in Keys, T \in Types : Lookup(tries[i].root_, k, T) = Absent)

\* the Remove of the only key, a key of the longest length, of a trie: every
\* node of the path is dropped and the root is null
C10_Witness ==
    \E i \in Calls :
        /\ tries[i].kind = "Remove" /\ Len(tries[i].key) = MaxLen
        /\ Src(i).root_ # nullptr
        /\ Cardinality(Reachable(Src(i).root_)) = MaxLen + 1
        /\ HasValue(Src(i).root_, tries[i].key)
        /\ tries[i].root_ = nullptr

(***************************************************************************)
(* Structural sharing.                                                     *)
(***************************************************************************)
\* the sizes of the heap when call i returned
NodesAfter(i) == IF i < Len(tries) THEN tries[i + 1].nodes0 ELSE Len(nodes)

ObjsAfter(i) == IF i < Len(tries) THEN tries[i + 1].objs0 ELSE Len(objs)

\* the nodes of the result of call i that are not nodes of its receiver
NewNodes(i) == Reachable(tries[i].root_) \ Reachable(Src(i).root_)

\* the nodes on the path of key from root
PathNodes(root, key) ==
    {NodeAt(root, SubSeq(key, 1, j)) : j \in 0..Len(key)} \ {nullptr}

\* every child of a node on the path of call i's key in the receiver, other
\* than the child the path goes on with, is the same node in the result
OffPathShared(i) ==
    \A j \in 0..Len(tries[i].key) :
        LET pre == SubSeq(tries[i].key, 1, j)
            n1 == NodeAt(Src(i).root_, pre)
            n2 == NodeAt(tries[i].root_, pre)
        IN  n1 # nullptr =>
                \A c \in DOMAIN nodes[n1].children_ :
                    (j = Len(tries[i].key) \/ c # tries[i].key[j + 1]) =>
                        /\ n2 # nullptr
                        /\ c \in DOMAIN nodes[n2].children_
                        /\ nodes[n2].children_[c] = nodes[n1].children_[c]

\* C11 (structural sharing of Put): T2 = T1.Put(K, V) allocates at most
\* |K|+1 nodes, at most |K|+1 nodes of T2 are not nodes of T1, and every
\* child of a node on the path of K in T1 whose byte is not the path's byte,
\* every child of the last node included, is the same node in T2.
C11_PutSharing ==
    \A i \in Calls :
        tries[i].kind = "Put" =>
            /\ NodesAfter(i) - tries[i].nodes0 <= Len(tries[i].key) + 1
            /\ Cardinality(NewNodes(i)) <= Len(tries[i].key) + 1
            /\ OffPathShared(i)

\* a Put of a key whose node has a child in the receiver, below a root that
\* has another child: both children are the same nodes in the result
C11_Witness ==
    \E i \in Calls, c \in Alphabet, d \in Alphabet :
        /\ tries[i].kind = "Put" /\ Len(tries[i].key) = 1
        /\ d # tries[i].key[1]
        /\ d \in DOMAIN ChildrenAt(Src(i).root_, <<>>)
        /\ c \in DOMAIN ChildrenAt(Src(i).root_, tries[i].key)
        /\ ChildrenAt(tries[i].root_, <<>>)[d] = ChildrenAt(Src(i).root_, <<>>)[d]
        /\ ChildrenAt(tries[i].root_, tries[i].key)[c]
               = ChildrenAt(Src(i).root_, tries[i].key)[c]
        /\ Cardinality(NewNodes(i)) = 2

(***************************************************************************)
(* Put twice.                                                              *)
(***************************************************************************)
\* C12 (Put idempotence): S.Put(K, V).Put(K, V) answers every Get<U>(K') as
\* S.Put(K, V) does, for every key K' and type U.
C12_PutIdempotent ==
    \A i \in Calls :
        (/\ tries[i].kind = "Put" /\ Src(i).kind = "Put"
         /\ Src(i).key = tries[i].key
         /\ Src(i).type = tries[i].type
         /\ Src(i).val = tries[i].val) =>
            \A k \in Keys, U \in Types :
                Lookup(tries[i].root_, k, U) = Lookup(Src(i).root_, k, U)

\* the same Put made twice on a trie that holds a value below the key
C12_Witness ==
    \E i \in Calls, k \in Keys :
        /\ tries[i].kind = "Put" /\ Src(i).kind = "Put"
        /\ Src(i).key = tries[i].key
        /\ Src(i).type = tries[i].type
        /\ Src(i).val = tries[i].val
        /\ tries[i].root_ # Src(i).root_
        /\ IsPrefix(tries[i].key, k) /\ HasValue(tries[i].root_, k)
        /\ Lookup(tries[i].root_, tries[i].key, tries[i].type)
               = Present(tries[i].val)

(***************************************************************************)
(* Sharing by Remove, and sharing of payloads.                             *)
(***************************************************************************)
\* C17 (structural sharing of Remove): for T2 = T1.Remove(K) with a value at
\* K in T1, every node of T2 that is not a node of T1 lies on the path of K,
\* there are at most |K|+1 of them, and every child of a node on the path of
\* K in T1 whose byte is not the path's byte is the same node in T2.
C17_RemoveSharing ==
    \A i \in Calls :
        (tries[i].kind = "Remove" /\ HasValue(Src(i).root_, tries[i].key)) =>
            /\ NewNodes(i) \subseteq PathNodes(tries[i].root_, tries[i].key)
            /\ Cardinality(NewNodes(i)) <= Len(tries[i].key) + 1
            /\ NodesAfter(i) - tries[i].nodes0 <= Len(tries[i].key) + 1
            /\ OffPathShared(i)

\* a Remove of a key whose node has a child: the node and the root are new,
\* the child is the same node
C17_Witness ==
    \E i \in Calls, c \in Alphabet :
        /\ tries[i].kind = "Remove" /\ Len(tries[i].key) = 1
        /\ HasValue(Src(i).root_, tries[i].key)
        /\ c \in DOMAIN ChildrenAt(Src(i).root_, tries[i].key)
        /\ ChildrenAt(tries[i].root_, tries[i].key)[c]
               = ChildrenAt(Src(i).root_, tries[i].key)[c]
        /\ Cardinality(NewNodes(i)) = 2

\* a Remove of one of two keys under one parent: the sibling is the same node
C17_WitnessSibling ==
    \E i \in Calls, c \in Alphabet :
        /\ tries[i].kind = "Remove" /\ Len(tries[i].key) = MaxLen
        /\ HasValue(Src(i).root_, tries[i].key)
        /\ c # tries[i].key[MaxLen]
        /\ c \in DOMAIN ChildrenAt(Src(i).root_, SubSeq(tries[i].key, 1, MaxLen - 1))
        /\ ChildrenAt(tries[i].root_, SubSeq(tries[i].key, 1, MaxLen - 1))[c]
               = ChildrenAt(Src(i).root_, SubSeq(tries[i].key, 1, MaxLen - 1))[c]

\* C18 (payloads are shared): for every key K' other than the key K of a Put
\* or Remove that has a value in the receiver S, Get<T>(K') on the result
\* returns the pointer it returns on S, and a Put allocates exactly one
\* payload object.
C18_PayloadShared ==
    \A i \in Calls :
        /\ \A k \in Keys \ {tries[i].key}, T \in Types :
               Get(Heap, Src(i).root_, k, T) # nullptr =>
                   Get(Heap, tries[i].root_, k, T) = Get(Heap, Src(i).root_, k, T)
        /\ tries[i].kind = "Put" => ObjsAfter(i) - tries[i].objs0 = 1

\* a Put below a key that holds a value: the node of that key is rebuilt and
\* refers to the payload object it referred to
C18_Witness ==
    \E i \in Calls, k \in Keys, T \in Types :
        /\ tries[i].kind = "Put"
        /\ IsPrefix(k, tries[i].key)
        /\ Get(Heap, Src(i).root_, k, T) # nullptr
        /\ NodeAt(tries[i].root_, k) # NodeAt(Src(i).root_, k)
        /\ Get(Heap, tries[i].root_, k, T) = Get(Heap, Src(i).root_, k, T)

\* the same for a Remove below a key that holds a value
C18_WitnessRemove ==
    \E i \in Calls, k \in Keys, T \in Types :
        /\ tries[i].kind = "Remove"
        /\ IsPrefix(k, tries[i].key)
        /\ HasValue(Src(i).root_, tries[i].key)
        /\ Get(Heap, Src(i).root_, k, T) # nullptr
        /\ NodeAt(tries[i].root_, k) # NodeAt(Src(i).root_, k)
        /\ Get(Heap, tries[i].root_, k, T) = Get(Heap, Src(i).root_, k, T)

\* the walk of a Remove(K) stops at the root: the trie is empty, or the root
\* has no child for the first byte of K
StopsAtRoot(root, key) ==
    \/ root = nullptr
    \/ key # <<>> /\ key[1] \notin DOMAIN nodes[root].children_

\* C19 as claimed: a Remove of a key that has no value in S allocates no
\* node and returns the root of S.
C19_RemoveAbsentReuses ==
    \A i \in Calls :
        (tries[i].kind = "Remove" /\ ~HasValue(Src(i).root_, tries[i].key)) =>
            /\ NodesAfter(i) = tries[i].nodes0
            /\ tries[i].root_ = Src(i).root_

\* C19 (amended): a Remove of a key K that has no value in S allocates no
\* node and returns the root of S if and only if S is empty or the root of S
\* has no child for the first byte of K; otherwise (K is empty, or the root
\* has that child) it allocates at least one node and returns a new root.
C19_RemoveAbsentReuseIff ==
    \A i \in Calls :
        (tries[i].kind = "Remove" /\ ~HasValue(Src(i).root_, tries[i].key)) =>
            IF StopsAtRoot(Src(i).root_, tries[i].key)
            THEN /\ NodesAfter(i) = tries[i].nodes0
                 /\ tries[i].root_ = Src(i).root_
            ELSE /\ NodesAfter(i) > tries[i].nodes0
                 /\ tries[i].root_ # Src(i).root_
                 /\ tries[i].root_ \notin 0..tries[i].nodes0

\* a Remove that stops at the root of a trie that holds a value, and returns
\* that root
C19_Witness ==
    \E i \in Calls, k \in Keys :
        /\ tries[i].kind = "Remove"
        /\ Src(i).root_ # nullptr
        /\ HasValue(Src(i).root_, k)
        /\ StopsAtRoot(Src(i).root_, tries[i].key)
        /\ tries[i].root_ = Src(i).root_
        /\ NodesAfter(i) = tries[i].nodes0

\* a Remove of an absent key that falls off below the root, and returns a new
\* root
C19_WitnessRebuilt ==
    \E i \in Calls :
        /\ tries[i].kind = "Remove" /\ Len(tries[i].key) = MaxLen
        /\ NodeAt(Src(i).root_, SubSeq(tries[i].key, 1, 1)) # nullptr
        /\ NodeAt(Src(i).root_, tries[i].key) = nullptr
        /\ tries[i].root_ # Src(i).root_

(***************************************************************************)
(* Payloads of any type.                                                   *)
(***************************************************************************)
\* C16 (payload preservation): whenever a Put or Remove of K passes a value
\* node at a proper prefix of K, the node at that prefix in the result is a
\* value node of the same type that refers to the same payload, whatever
\* the type of the payload.
C16_PayloadPreserved ==
    \A i \in Calls, k \in Keys :
        (IsPrefix(k, tries[i].key) /\ HasValue(Src(i).root_, k)) =>
            LET n1 == NodeAt(Src(i).root_, k)
                n2 == NodeAt(tries[i].root_, k)
            IN  /\ n2 # nullptr
                /\ nodes[n2].is_value_node_
                /\ nodes[n2].type = nodes[n1].type
                /\ nodes[n2].value_ = nodes[n1].value_

(***************************************************************************)
(* The test runner.                                                        *)
(***************************************************************************)
\* the tests whose body failed an assertion, and the tests whose body threw
AssertFailed == {i \in DOMAIN tests : tests[i] \in {"assert_true", "assert_eq"}}

Threw == {i \in DOMAIN tests : tests[i] \in {"throw_std", "throw_other"}}

\* C13 (failure accounting): when main returns, the failure count and the
\* exit status count every test that failed an assertion or threw, and the
\* exit status is 0 only when no test failed an assertion or threw.
C13_FailedAssertionCounted ==
    pc = "done" =>
        /\ failed = Cardinality(AssertFailed \cup Threw)
        /\ status = failed
        /\ status = 0 => AssertFailed \cup Threw = {}

\* the tests of the lines of `out` with a tag, in the order written
RECURSIVE TestsTagged(_, _)
TestsTagged(lines, tag) ==
    IF lines = <<>> THEN <<>>
    ELSE (IF Head(lines).tag = tag THEN <<Head(lines).test>> ELSE <<>>)
             \o TestsTagged(Tail(lines), tag)

Range(f) == {f[x] : x \in DOMAIN f}

\* C14 (isolation and order): the runner runs the registered tests one by
\* one in registration order, each once; a test that throws is reported
\* FAILED and counted as a failure, it alone, and the tests after it still
\* run; when main returns every registered test has run and passed + failed
\* is their number.
C14_RunnerIsolation ==
    pc \in {"loop", "done"} =>
        LET done == 1..(next - 1) IN
        /\ TestsTagged(out, "RUN") = [i \in done |-> i]
        /\ Range(TestsTagged(out, "FAILED")) = Threw \cap done
        /\ Len(TestsTagged(out, "FAILED")) = Cardinality(Threw \cap done)
        /\ failed = Cardinality(Threw \cap done)
        /\ passed + failed = next - 1
        /\ pc = "done" => next - 1 = Len(tests)

\* three tests: the first throws a std::exception, the second throws
\* something else, the third passes and is run and counted
C14_Witness ==
    /\ pc = "done"
    /\ tests = <<"throw_std", "throw_other", "pass">>
    /\ TestsTagged(out, "RUN") = <<1, 2, 3>>
    /\ TestsTagged(out, "OK") = <<3>>
    /\ passed = 1 /\ failed = 2 /\ status = 2

\* C15 (thread independence): whatever the interleaving of the steps of
\* the threads' calls, no step changes a node or a payload object that
\* exists already, nor a handle that has been returned (a step writes only
\* to what it allocates), and a call that finishes returns what it returns
\* when nothing runs between its steps: Get the same payload object, Put
\* and Remove the same trie.
C15_ThreadIndependence ==
    [][/\ Len(nodes') >= Len(nodes)
       /\ SubSeq(nodes', 1, Len(nodes)) = nodes
       /\ Len(objs') >= Len(objs)
       /\ SubSeq(objs', 1, Len(objs)) = objs
       /\ Len(tries') >= Len(tries)
       /\ SubSeq(tries', 1, Len(tries)) = tries
       /\ \A t \in Threads :
              LET th == threads'[t] IN
              /\ (th.pc = "done" /\ th.op = "Get") => th.ret = th.alonePtr
              /\ (th.pc = "done" /\ th.op \in {"Put", "Remove"}) =>
                     Tree([nodes |-> nodes', objs |-> objs'], th.ret)
                         = th.aloneTree]_vars

\* two threads called Put and Remove on the same handle of a non-empty
\* trie, before either allocated anything, both allocated nodes and both
\* returned; a third handle is the one they share
C15_Witness ==
    \E t1, t2 \in Threads :
        /\ t1 # t2
        /\ threads[t1].pc = "done" /\ threads[t1].op = "Put"
        /\ threads[t2].pc = "done" /\ threads[t2].op = "Remove"
        /\ threads[t1].src = threads[t2].src
        /\ tries[threads[t1].src].root_ # nullptr
        /\ threads[t1].nodes0 = threads[t2].nodes0
        /\ threads[t1].key = <<"a", "b">> /\ threads[t2].key = <<"a">>
        /\ threads[t1].ret # nullptr /\ threads[t2].ret # nullptr
        /\ threads[t1].ret # threads[t2].ret

\* a thread's Get found a payload object in the trie of a handle while the
\* other thread allocated nodes for a Put on the same handle
C15_WitnessGet ==
    \E t1, t2 \in Threads :
        /\ threads[t1].pc = "done" /\ threads[t1].op = "Get"
        /\ threads[t1].ret # nullptr
        /\ threads[t2].pc = "done" /\ threads[t2].op = "Put"
        /\ threads[t1].src = threads[t2].src
        /\ threads[t1].nodes0 = threads[t2].nodes0

====
